---------------------------- MODULE Spec2Model ----------------------------
(***************************************************************************)
(* Word-count heatmap tracker (productivity-tracker plugin).               *)
(*                                                                         *)
(* The model follows DataTracker (data-tracker.ts), the plugin's event     *)
(* handlers (main.ts) and the panel's collapse logic (panel-view).         *)
(* Strings whose shape the code inspects (paths, base names, date keys,    *)
(* bucket keys, file contents) are sequences of one-character strings.     *)
(* The clock `now` counts milliseconds since 00:00 UTC of the epoch day    *)
(* (EpochDays days after 1970-01-01); `tz` is the host's offset from UTC   *)
(* in minutes.  Every async handler is split at its await points.          *)
(***************************************************************************)
EXTENDS Integers, Sequences, FiniteSets, Bags, TLC

\* ------------------------------------------------------------------ bounds
\* The clock runs through the days 0 .. MaxDays after the epoch day.
MaxDays == 1
\* Handlers that may be suspended at an await at the same time.
MaxInFlight == 2
\* The epoch day of the model's clock: 2023-12-31, in days since 1970-01-01.
EpochDays == 19722

\* --------------------------------------------------------------- constants
DEBOUNCE_INTERVAL == 3000

MsPerMinute == 60 * 1000
MsPerHour == 60 * MsPerMinute
MsPerDay == 24 * MsPerHour

\* ----------------------------------------------------------------- strings
Digits == <<"0", "1", "2", "3", "4", "5", "6", "7", "8", "9">>

IsDigit(c) == \E i \in 1..10 : Digits[i] = c

\* n.toString().padStart(2, "0") for 0 <= n <= 99
Pad2(n) == <<Digits[(n \div 10) + 1], Digits[(n % 10) + 1]>>

\* the four-digit year of toISOString, for 0 <= y <= 9999
Pad4(y) == Pad2(y \div 100) \o Pad2(y % 100)

\* s.startsWith(prefix)
StartsWith(s, prefix) ==
    /\ Len(s) >= Len(prefix)
    /\ SubSeq(s, 1, Len(prefix)) = prefix

\* ---------------------------------------------------------------- calendar
\* The civil date [y, m, d] of the day `days` days after 1970-01-01
\* (proleptic Gregorian calendar, as Date does).
CivilFromDays(days) ==
    LET z == days + 719468
        era == z \div 146097
        doe == z - era * 146097
        yoe == (doe - (doe \div 1460) + (doe \div 36524) - (doe \div 146096)) \div 365
        doy == doe - (365 * yoe + (yoe \div 4) - (yoe \div 100))
        mp == (5 * doy + 2) \div 153
        d == doy - ((153 * mp + 2) \div 5) + 1
        m == IF mp < 10 THEN mp + 3 ELSE mp - 9
        y == yoe + era * 400 + (IF m <= 2 THEN 1 ELSE 0)
    IN  [y |-> y, m |-> m, d |-> d]

\* date.toISOString().split("T")[0] of the instant t: the UTC date, YYYY-MM-DD
IsoDateString(t) ==
    LET c == CivilFromDays(EpochDays + (t \div MsPerDay))
    IN  Pad4(c.y) \o <<"-">> \o Pad2(c.m) \o <<"-">> \o Pad2(c.d)

\* The host's wall clock at instant t, in milliseconds since the epoch day's
\* 00:00 local time.
LocalMs(t, offset) == t + offset * MsPerMinute

\* Date.getHours() and Date.getMinutes(): fields of the local wall clock
GetHours(t, offset) == (LocalMs(t, offset) % MsPerDay) \div MsPerHour

GetMinutes(t, offset) == (LocalMs(t, offset) % MsPerHour) \div MsPerMinute

\* The calendar date of the local wall clock, YYYY-MM-DD.
LocalDateString(t, offset) ==
    LET c == CivilFromDays(EpochDays + (LocalMs(t, offset) \div MsPerDay))
    IN  Pad4(c.y) \o <<"-">> \o Pad2(c.m) \o <<"-">> \o Pad2(c.d)

\* ------------------------------------------------------------- bucket keys
BucketKey(hour, half) == Pad2(hour) \o <<":">> \o half

\* createEmptyDayData / getBucketKeys: the 48 keys "HH:00", "HH:30"
BucketKeys ==
    { BucketKey(i, <<"0", "0">>) : i \in 0..23 } \cup
    { BucketKey(i, <<"3", "0">>) : i \in 0..23 }

createEmptyDayData == [k \in BucketKeys |-> 0]

\* ------------------------------------------------------------- word count
IsSpace(c) == c \in {" ", "\n", "\t"}

SetMin(S) == CHOOSE x \in S : \A y \in S : x <= y

\* The length of the match of /^---\n[\s\S]*?\n---\n?/ on content, 0 when it
\* does not match: the opening "---\n", the shortest run of any characters,
\* the first "\n---" after it and one "\n" when it follows.
FrontmatterMatchLen(content) ==
    LET n == Len(content)
        closes == { i \in 5..(n - 3) :
                      SubSeq(content, i, i + 3) = <<"\n", "-", "-", "-">> }
    IN  IF StartsWith(content, <<"-", "-", "-", "\n">>) /\ closes # {}
        THEN LET e == SetMin(closes) + 3
             IN  IF e < n /\ content[e + 1] = "\n" THEN e + 1 ELSE e
        ELSE 0

\* text.split(/\s+/).filter(word => word.length > 0).length: the number of
\* maximal runs of non-whitespace characters
CountWords(text) ==
    Cardinality({ i \in 1..Len(text) :
                    /\ ~IsSpace(text[i])
                    /\ (i = 1 \/ IsSpace(text[i - 1])) })

calculateWordCount(content) ==
    LET m == FrontmatterMatchLen(content)
    IN  CountWords(SubSeq(content, m + 1, Len(content)))

\* ------------------------------------------------------------------- files
\* A TFile of the vault: its path and its base name (no folder, no extension).
TFile(folder, name) ==
    [path |-> folder \o <<"/">> \o name \o <<".", "m", "d">>, basename |-> name]

Journal == <<"J">>

\* The daily note of the day d days after the epoch day, named by its date.
Daily(d) == TFile(Journal, IsoDateString(d * MsPerDay))

\* The daily note of the epoch day: today's note on that day, a stale note on
\* every later day.
Today == Daily(0)

\* A note of the tracked folder whose name carries no date.
Undated == TFile(Journal, <<"n">>)

\* A note dated as the epoch day in a folder whose name only starts like the
\* tracked folder's.
Outside == TFile(<<"J", "y">>, IsoDateString(0))

\* The notes of the vault.
Files == {Today, Undated, Outside}

NoFile == [path |-> <<>>, basename |-> <<>>]

\* What vault.read may return for a note: a frontmatter block alone (0 words)
\* and a frontmatter block before three words.
Texts ==
    { <<"-", "-", "-", "\n", "k", ":", " ", "v", "\n", "-", "-", "-", "\n">>,
      <<"-", "-", "-", "\n", "k", "\n", "-", "-", "-", "\n", "a", " ", "b", "\n", "c">> }

\* What the operator may type into the tracking folder field.
FolderInputs == { <<>>, <<"J">>, <<"/", "J", "/">> }

\* The host's timezone offset from UTC, in minutes: UTC-8.
TzOffsets == {-480}

\* The instants at which the clock is sampled: on the epoch day 00:00 UTC,
\* half a debounce interval later and a whole debounce interval later (the
\* afternoon of the day before on the host's clock); on each later day
\* 08:30 UTC (00:30 of the same day on the host's clock).
ClockOffsets == {0, DEBOUNCE_INTERVAL \div 2, DEBOUNCE_INTERVAL}

ClockInstants ==
    ClockOffsets \cup { d * MsPerDay + 510 * MsPerMinute : d \in 1..MaxDays }

\* ------------------------------------------------------------------- state
VARIABLES
    now,             \* Date.now(), in ms since 00:00 UTC of the epoch day
    tz,              \* the host's timezone offset, minutes east of UTC
    trackingFolder,  \* settings.trackingFolder
    lookbackWindow,  \* settings.lookbackWindow
    autoExpandPanel, \* settings.autoExpandPanel
    panelCollapsed,  \* settings.panelCollapsed
    dailyData,       \* data.dailyData: date key -> bucket key -> count
    wordCountCache,  \* data.wordCountCache: path -> last word count
    lastSaveTime,    \* data.lastSaveTime: path -> instant of the last accepted save
    isCollapsed,     \* PanelView.isCollapsed
    container,       \* PanelView.container: "null", or its collapse class
    currentView,     \* PanelView.currentView: "today" or "trend"
    ops,             \* the bag of handlers suspended at an await
    ev,              \* what the last step let the operator or a caller observe
    prevCount,       \* history: path -> word count of its last committed save
    unsaved,         \* history: the paths whose commit met a failed saveData
    ledger,          \* history: <<date, bucket>> -> sum of the deltas committed
    seed,            \* history: path -> count a warm-up wrote, until the next commit
    baseline,        \* history: path -> count a warm-up wrote, 0 when a save came first
    trial            \* the inputs of an operation exercised on its own

settingsVars == <<trackingFolder, lookbackWindow, autoExpandPanel, panelCollapsed>>
dataVars == <<dailyData, wordCountCache, lastSaveTime>>
panelVars == <<isCollapsed, container, currentView>>
\* The history restarts with every reset.
histVars == <<prevCount, unsaved, ledger, seed, baseline>>
vars == <<now, tz, settingsVars, dataVars, panelVars, ops, ev, histVars, trial>>

\* f with key k set to v, k joining the domain when it is new
Put(f, k, v) == [x \in DOMAIN f \cup {k} |-> IF x = k THEN v ELSE f[x]]

\* obj[k] || 0
OrZero(f, k) == IF k \in DOMAIN f THEN f[k] ELSE 0

\* A suspended handler: its kind ("modify", "open", "clear", "settings",
\* "collapse"), its file, the await it is at ("read": vault.read, "save":
\* saveData), the local isFirstSaveOfDay of processFileModification (the
\* field of its result that the handler reads; the delta it returns is the
\* constant it committed) and how often it has called the persistence
\* callback.
Op(kind, file, pc, first, calls) ==
    [kind |-> kind, file |-> file, pc |-> pc, first |-> first, calls |-> calls]

InFlight == BagToSet(ops)

HasFreeSlot == BagCardinality(ops) < MaxInFlight

Suspend(op) == ops (+) SetToBag({op})

Resume(op) == ops (-) SetToBag({op})

\* The tracking data and the settings as a step finds them.
Snapshot ==
    [dailyData |-> dailyData, wordCountCache |-> wordCountCache,
     lastSaveTime |-> lastSaveTime, settings |-> settingsVars]

\* What a step lets a caller or the operator observe.  result is "null"
\* (processFileModification or the warm-up returned at the gate named by
\* gate), "accepted" (the gates passed and the handler awaits vault.read),
\* "committed" (the delta of count against the cache is in memory and the
\* persistence callback is called), "ok" (the handler returned), "seeded" (the
\* warm-up wrote the cache), "started" (a handler without gates awaits
\* saveData), "readError" or "saveError" (the handler's promise rejected);
\* prev is the history's count of the path before a commit, -1 for none, and
\* unsaved tells whether the persistence of that earlier commit had failed;
\* seed is the count a warm-up wrote for the path since its last commit, -1 for
\* none;
\* notice is the text of the Notice shown, "" for none; view is what
\* renderChart drew in the step, "-" for nothing; pre is the tracking data and
\* the settings before the step.
NoEvent ==
    [kind |-> "none", result |-> "-", gate |-> "-", file |-> NoFile,
     count |-> 0, delta |-> 0, first |-> FALSE, calls |-> 0, prev |-> -1,
     unsaved |-> FALSE, seed |-> -1, notice |-> "", view |-> "-",
     pre |-> [dailyData |-> <<>>, wordCountCache |-> <<>>, lastSaveTime |-> <<>>,
              settings |-> <<>>]]

Event(kind, result, file) ==
    [NoEvent EXCEPT !.kind = kind, !.result = result, !.file = file,
                    !.pre = Snapshot]

\* ------------------------------------------------------------------- gates
\* trackingFolder.replace(/^\/|\/$/g, "")
NormalizeFolder(v) ==
    LET a == IF Len(v) > 0 /\ v[1] = "/" THEN Tail(v) ELSE v
    IN  IF Len(a) > 0 /\ a[Len(a)] = "/" THEN SubSeq(a, 1, Len(a) - 1) ELSE a

\* A gate that takes every path that starts like the folder.
ScopeByPrefix(file, folder) ==
    /\ folder # <<>>
    /\ StartsWith(file.path, NormalizeFolder(folder))

isFileInTrackedFolder(file, folder) ==
    /\ folder # <<>>
    /\ \/ StartsWith(file.path, NormalizeFolder(folder) \o <<"/">>)
       \/ file.path = NormalizeFolder(folder)

\* fileBasename.match(/^(\d{4}-\d{2}-\d{2})/): the matched date, <<>> for null
getDateFromFile(file) ==
    LET b == file.basename
    IN  IF /\ Len(b) >= 10
           /\ \A i \in {1, 2, 3, 4, 6, 7, 9, 10} : IsDigit(b[i])
           /\ b[5] = "-"
           /\ b[8] = "-"
        THEN SubSeq(b, 1, 10)
        ELSE <<>>

\* A date read from a clock that stopped on the epoch day.
StoppedDateString == IsoDateString(0)

getCurrentDateString == IsoDateString(now)

getCurrentHourBucket ==
    BucketKey(GetHours(now, tz),
              IF GetMinutes(now, tz) < 30 THEN <<"0", "0">> ELSE <<"3", "0">>)

\* A currency test that asks only for a dated name.
isDatedFile(file) == getDateFromFile(file) # <<>>

isFileFromToday(file) == getDateFromFile(file) = getCurrentDateString

\* A debounce test that lets every save pass.
AlwaysProcessSave(filePath) == TRUE

\* The test of shouldProcessSave.  A path without a timestamp reads 0, and
\* Date.now() - 0 is at least the debounce interval on any host clock.
shouldProcessSave(filePath) ==
    ~(/\ filePath \in DOMAIN lastSaveTime
      /\ now - lastSaveTime[filePath] < DEBOUNCE_INTERVAL)

\* A debounce gate that restarts the interval at every save it drops.
ExtendWindowOnDrop(times, filePath) == Put(times, filePath, now)

\* data.lastSaveTime after shouldProcessSave returned false: it returns
\* before the assignment.
LastSaveTimeAfterDrop(times, filePath) == times

\* The gate of processFileModification that returns null for file, in the
\* order of the code; "-" when all three pass.
RejectingGate(file) ==
    IF ~isFileInTrackedFolder(file, trackingFolder) THEN "scope"
    ELSE IF ~isFileFromToday(file) THEN "currency"
    ELSE IF ~shouldProcessSave(file.path) THEN "debounce"
    ELSE "-"

\* ------------------------------------------------------------------ commit
previousWordCount(cache, path) == OrZero(cache, path)

\* A delta that takes the whole count, whatever the cache holds.
DeltaFromZero(currentWordCount, previous) == currentWordCount

ComputeDelta(currentWordCount, previous) == currentWordCount - previous

\* A first-save test that asks for an empty store.
IsFirstSaveEver(dd, dateString) == dd = <<>>

IsFirstSaveOfDay(dd, dateString) == dateString \notin DOMAIN dd

\* An accumulation that assigns the delta to the bucket.
Overwrite(dd, dateString, hourBucket, delta) ==
    LET day == IF dateString \in DOMAIN dd THEN dd[dateString]
               ELSE createEmptyDayData
    IN  Put(dd, dateString, [day EXCEPT ![hourBucket] = delta])

\* dailyData[dateString] created when missing, then [hourBucket] += delta
Accumulate(dd, dateString, hourBucket, delta) ==
    LET day == IF dateString \in DOMAIN dd THEN dd[dateString]
               ELSE createEmptyDayData
    IN  Put(dd, dateString, [day EXCEPT ![hourBucket] = @ + delta])

\* A read failure handled as an empty file.
CacheZeroAfterReadError(cache, path) == Put(cache, path, 0)

\* The cache after vault.read threw: the exception leaves
\* processFileModification before it writes anything.
CacheAfterReadError(cache, path) == cache

\* The cache and the day vectors after saveCallback threw: nothing is undone.
CacheAfterSaveError(cache, op) == cache

DailyDataAfterSaveError(dd, op) == dd

\* A commit that persists only a nonzero delta.
CallsUnlessZeroDelta(calls, delta) == IF delta = 0 THEN calls ELSE calls + 1

\* await this.saveCallback(): the calls of the persistence callback made by
\* one processFileModification
CallsAfterSaveCallback(calls, delta) == calls + 1

\* The Notice shown when saveData rejected: no handler catches the rejection,
\* so none is shown.
NoticeAfterSaveError(op) == ""

\* ------------------------------------------------------------------- zones
\* The timezone rules of the host: its offset from UTC in minutes before the
\* instant change (in minutes since 00:00 UTC of the epoch day) and from then
\* on.
Zone(before, change, after) ==
    [before |-> before, change |-> change, after |-> after]

\* A host whose offset never changes.
FixedZone(offset) == Zone(offset, 0, offset)

MinutesPerDay == 24 * 60

\* The offset in force at the instant m (minutes since the epoch day).
OffsetAt(zone, m) == IF m < zone.change THEN zone.before ELSE zone.after

\* The local wall clock of the instant t (ms), in minutes since the epoch
\* day's 00:00 local time.
LocalMinutes(t, zone) ==
    (t \div MsPerMinute) + OffsetAt(zone, t \div MsPerMinute)

\* The instant (minutes) at which the local wall clock reads lm; a reading
\* that occurs twice is the earlier instant and a reading the clock skips is
\* taken with the offset before the change, as Date does.
UtcOfLocalMinutes(zone, lm) ==
    IF lm - zone.before < zone.change THEN lm - zone.before
    ELSE IF lm - zone.after >= zone.change THEN lm - zone.after
    ELSE lm - zone.before

\* date.setDate(date.getDate() - d) on a copy of the instant t: the local
\* calendar day moves back d days, the local time of day stays.
SetDateBack(t, zone, d) ==
    UtcOfLocalMinutes(zone, LocalMinutes(t, zone) - d * MinutesPerDay)

\* toISOString().split("T")[0] of the instant m given in minutes
IsoDateOfMinutes(m) ==
    LET c == CivilFromDays(EpochDays + (m \div MinutesPerDay))
    IN  Pad4(c.y) \o <<"-">> \o Pad2(c.m) \o <<"-">> \o Pad2(c.d)

\* ------------------------------------------------------------------- reads
\* getBucketKeys, and the key order of createEmptyDayData: "00:00", "00:30",
\* "01:00", ...
getBucketKeys ==
    [i \in 1..48 |->
        BucketKey((i - 1) \div 2,
                  IF i % 2 = 1 THEN <<"0", "0">> ELSE <<"3", "0">>)]

\* dailyData[dateString] || null, null being the empty record
getDayData(dd, dateString) ==
    IF dateString \in DOMAIN dd THEN dd[dateString] ELSE <<>>

\* dailyData[dateString] || createEmptyDayData()
getTodayData(dd, dateString) ==
    IF dateString \in DOMAIN dd THEN dd[dateString] ELSE createEmptyDayData

hasData(dd) == DOMAIN dd # {}

hasTodayData(dd, dateString) ==
    /\ dateString \in DOMAIN dd
    /\ \E b \in DOMAIN dd[dateString] : dd[dateString][b] # 0

\* The dateString of the loop of getAverageData at d.
AverageDateString(t, zone, d) == IsoDateOfMinutes(SetDateBack(t, zone, d))

\* The dateStrings of the loop of getAverageData, d = 0 first.
AverageDates(t, zone, days) ==
    [i \in 1..days |-> AverageDateString(t, zone, i - 1)]

\* A test that lets only a positive value contribute.
ContributesWhenPositive(dd, dateString, bucket) ==
    /\ dateString \in DOMAIN dd
    /\ bucket \in DOMAIN dd[dateString]
    /\ dd[dateString][bucket] > 0

\* dayData && dayData[bucket] !== undefined && dayData[bucket] !== 0
Contributes(dd, dateString, bucket) ==
    /\ dateString \in DOMAIN dd
    /\ bucket \in DOMAIN dd[dateString]
    /\ dd[dateString][bucket] # 0

\* result[bucket] after the loop has run over dates
RECURSIVE AverageSum(_, _, _)
AverageSum(dd, dates, bucket) ==
    IF dates = <<>> THEN 0
    ELSE (IF Contributes(dd, Head(dates), bucket)
          THEN dd[Head(dates)][bucket] ELSE 0) +
         AverageSum(dd, Tail(dates), bucket)

\* counts[bucket] after the loop
AverageCount(dd, dates, bucket) ==
    Cardinality({ i \in DOMAIN dates : Contributes(dd, dates[i], bucket) })

\* Math.round(num / den) for den > 0: the nearest integer, a tie going up
MathRound(num, den) == (2 * num + den) \div (2 * den)

getAverageData(dd, t, zone, days) ==
    LET dates == AverageDates(t, zone, days)
    IN  [bucket \in BucketKeys |->
            LET sum == AverageSum(dd, dates, bucket)
                count == AverageCount(dd, dates, bucket)
            IN  IF count > 0 THEN MathRound(sum, count) ELSE 0]

\* The place of entry i of data in the order of
\* Object.entries(data).filter(e => e.value > 0).sort((a, b) => b.value - a.value):
\* behind every larger value and, the sort being stable, behind every equal
\* value of an earlier key.
PeakRank(data, i) ==
    1 + Cardinality({ j \in 1..48 :
                        \/ data[getBucketKeys[j]] > data[getBucketKeys[i]]
                        \/ /\ data[getBucketKeys[j]] = data[getBucketKeys[i]]
                           /\ j < i })

\* A selection that keeps the buckets of every value.
PeakEntriesUnfiltered(data, topN) ==
    LET rank == [i \in 1..48 |-> PeakRank(data, i)]
    IN  [k \in 1..(IF topN < 48 THEN topN ELSE 48) |->
            getBucketKeys[CHOOSE i \in 1..48 : rank[i] = k]]

\* The buckets of the entries after .slice(0, topN)
PeakEntries(data, topN) ==
    LET positive == { i \in 1..48 : data[getBucketKeys[i]] > 0 }
        n == IF topN < Cardinality(positive) THEN topN ELSE Cardinality(positive)
        rank == [i \in positive |-> PeakRank(data, i)]
    IN  [k \in 1..n |-> getBucketKeys[CHOOSE i \in positive : rank[i] = k]]

\* bucket.split(":")[index], index counting from 1
SplitColon(bucket, index) ==
    LET colons == { i \in 1..Len(bucket) : bucket[i] = ":" }
        before(i) == Cardinality({ j \in colons : j < i })
        part == { i \in 1..Len(bucket) : bucket[i] # ":" /\ before(i) = index - 1 }
    IN  IF part = {} THEN <<>>
        ELSE SubSeq(bucket, SetMin(part), SetMin(part) + Cardinality(part) - 1)

\* parseInt of a string of one or two digits
ParseInt(s) ==
    LET digit(c) == (CHOOSE i \in 1..10 : Digits[i] = c) - 1
    IN  IF Len(s) = 1 THEN digit(s[1]) ELSE 10 * digit(s[1]) + digit(s[2])

\* `${n}` for 0 <= n <= 99
NumberToString(n) == IF n < 10 THEN <<Digits[n + 1]>> ELSE Pad2(n)

\* A label that keeps the 24-hour number.
formatBucketLabel24(bucket) ==
    LET hour == ParseInt(SplitColon(bucket, 1))
        suffix == IF SplitColon(bucket, 2) = <<"3", "0">>
                  THEN <<":", "3", "0">> ELSE <<>>
    IN  NumberToString(hour) \o suffix \o
        (IF hour < 12 THEN <<"a", "m">> ELSE <<"p", "m">>)

formatBucketLabel(bucket) ==
    LET hour == ParseInt(SplitColon(bucket, 1))
        isHalfHour == SplitColon(bucket, 2) = <<"3", "0">>
        suffix == IF isHalfHour THEN <<":", "3", "0">> ELSE <<>>
    IN  IF hour = 0 THEN <<"1", "2">> \o suffix \o <<"a", "m">>
        ELSE IF hour = 12 THEN <<"1", "2">> \o suffix \o <<"p", "m">>
        ELSE IF hour < 12 THEN NumberToString(hour) \o suffix \o <<"a", "m">>
        ELSE NumberToString(hour - 12) \o suffix \o <<"p", "m">>

findPeakHours(data, topN) ==
    LET entries == PeakEntries(data, topN)
    IN  [k \in DOMAIN entries |-> formatBucketLabel(entries[k])]

\* ChartRenderer.dataToArray: for i = 0 .. 23 the value data[hour] || 0 under
\* the key hour = i.toString().padStart(2, "0")
dataToArray(data) == [i \in 1..24 |-> OrZero(data, Pad2(i - 1))]

\* A getTodayData that stores the vector it creates.
StoreEmptyToday(dd, dateString) ==
    IF dateString \in DOMAIN dd THEN dd ELSE Put(dd, dateString, createEmptyDayData)

\* data.dailyData after getTodayData: the vector it creates for a missing
\* date is returned and not stored.
DailyDataAfterGetTodayData(dd, dateString) == dd

\* data.dailyData after getAverageData: result and counts are its own objects.
DailyDataAfterGetAverageData(dd, days) == dd

\* data.dailyData after getDayData and after hasTodayData: both only read.
DailyDataAfterGetDayData(dd, dateString) == dd

DailyDataAfterHasTodayData(dd, dateString) == dd

\* What renderChart draws: "-" for nothing (no chart container, or the panel is
\* collapsed), "empty" for the empty state, else the chart of the view.
RenderedView(attached, collapsed, dd, view) ==
    IF ~attached \/ collapsed THEN "-"
    ELSE IF ~hasData(dd) THEN "empty"
    ELSE view

\* data.dailyData after renderChart drew rendered.
DailyDataAfterRenderChart(dd, rendered, dateString, days) ==
    IF rendered = "today" THEN DailyDataAfterGetTodayData(dd, dateString)
    ELSE IF rendered = "trend" THEN DailyDataAfterGetAverageData(dd, days)
    ELSE dd

\* -------------------------------------------------------------------- init
\* No operation is exercised on its own in the runs of the plugin.
NoTrial == [name |-> "none"]

\* The plugin after onload with nothing stored: DEFAULT_SETTINGS, DEFAULT_DATA.
Init ==
    /\ now = 0
    /\ tz \in TzOffsets
    /\ trackingFolder = <<>>
    /\ lookbackWindow = 7
    /\ autoExpandPanel = TRUE
    /\ panelCollapsed = FALSE
    /\ dailyData = <<>>
    /\ wordCountCache = <<>>
    /\ lastSaveTime = <<>>
    /\ isCollapsed = panelCollapsed
    /\ container = "null"
    /\ currentView = "today"
    /\ ops = EmptyBag
    /\ ev = NoEvent
    /\ prevCount = <<>>
    /\ unsaved = {}
    /\ ledger = <<>>
    /\ seed = <<>>
    /\ baseline = <<>>
    /\ trial = NoTrial

\* ------------------------------------------------------------------- clock
Tick ==
    /\ \E t \in ClockInstants : t > now /\ now' = t
    /\ ev' = NoEvent
    /\ UNCHANGED <<tz, settingsVars, dataVars, panelVars, ops, histVars, trial>>

\* ------------------------------------------------------- file-saved handler
\* The "modify" event up to the first await: the three gates, the debounce
\* timestamp, and the start of vault.read.
ModifyEvent(f) ==
    IF RejectingGate(f) = "-"
    THEN /\ HasFreeSlot
         /\ lastSaveTime' = Put(lastSaveTime, f.path, now)
         /\ ops' = Suspend(Op("modify", f, "read", FALSE, 0))
         /\ ev' = Event("modify", "accepted", f)
         /\ UNCHANGED <<now, tz, settingsVars, dailyData, wordCountCache,
                        panelVars, histVars, trial>>
    ELSE /\ ev' = [Event("modify", "null", f) EXCEPT !.gate = RejectingGate(f)]
         /\ lastSaveTime' = IF RejectingGate(f) = "debounce"
                            THEN LastSaveTimeAfterDrop(lastSaveTime, f.path)
                            ELSE lastSaveTime
         /\ UNCHANGED <<now, tz, settingsVars, dailyData, wordCountCache,
                        panelVars, ops, histVars, trial>>

\* vault.read resolved with content: the delta is computed and committed, and
\* the persistence callback is called.
ModifyAfterRead(op, content) ==
    /\ op \in InFlight
    /\ op.kind = "modify"
    /\ op.pc = "read"
    /\ LET path == op.file.path
           currentWordCount == calculateWordCount(content)
           previous == previousWordCount(wordCountCache, path)
           delta == ComputeDelta(currentWordCount, previous)
           dateString == getCurrentDateString
           hourBucket == getCurrentHourBucket
           first == IsFirstSaveOfDay(dailyData, dateString)
           calls == CallsAfterSaveCallback(op.calls, delta)
           slot == <<dateString, hourBucket>>
       IN  /\ wordCountCache' = Put(wordCountCache, path, currentWordCount)
           /\ dailyData' = Accumulate(dailyData, dateString, hourBucket, delta)
           /\ ops' = Resume(op) (+)
                       SetToBag({Op("modify", op.file, "save", first, calls)})
           /\ ev' = [Event("modify", "committed", op.file) EXCEPT
                       !.count = currentWordCount, !.delta = delta,
                       !.first = first, !.calls = calls,
                       !.prev = IF path \in DOMAIN prevCount
                                THEN prevCount[path] ELSE -1,
                       !.unsaved = path \in unsaved,
                       !.seed = IF path \in DOMAIN seed THEN seed[path] ELSE -1]
           /\ prevCount' = Put(prevCount, path, currentWordCount)
           /\ unsaved' = unsaved \ {path}
           /\ ledger' = Put(ledger, slot, OrZero(ledger, slot) + delta)
           /\ seed' = [p \in DOMAIN seed \ {path} |-> seed[p]]
           /\ baseline' = IF path \in DOMAIN baseline THEN baseline
                           ELSE Put(baseline, path, 0)
    /\ UNCHANGED <<now, tz, settingsVars, lastSaveTime, panelVars, trial>>

\* PanelView.refresh / renderChart as a step of a handler that has written
\* ev: what is drawn is noted in ev and the reads leave their store behind.
Refresh(event) ==
    LET rendered == RenderedView(container # "null", isCollapsed, dailyData,
                                 currentView)
    IN  /\ ev' = [event EXCEPT !.view = rendered]
        /\ dailyData' = DailyDataAfterRenderChart(dailyData, rendered,
                                                  getCurrentDateString,
                                                  lookbackWindow)

\* PanelView.toggleCollapsed: the flag flips, the container's class follows
\* it, and the onSettingsChange callback stores the flag and starts an
\* un-awaited savePluginData; rest is the bag of the other suspended handlers.
toggleCollapsed(rest) ==
    /\ isCollapsed' = ~isCollapsed
    /\ container' = IF container = "null" THEN "null"
                    ELSE IF ~isCollapsed THEN "collapsed" ELSE "open"
    /\ panelCollapsed' = ~isCollapsed
    /\ ops' = rest (+) SetToBag({Op("collapse", NoFile, "save", FALSE, 1)})

\* saveCallback resolved: processFileModification returns {delta,
\* isFirstSaveOfDay}; the handler refreshes the panel and expands it on the
\* first save of the day.
ModifyAfterSave(op) ==
    /\ op \in InFlight
    /\ op.kind = "modify"
    /\ op.pc = "save"
    /\ Refresh([Event("modify", "ok", op.file) EXCEPT
                   !.first = op.first, !.calls = op.calls])
    /\ IF op.first /\ autoExpandPanel /\ isCollapsed
       THEN /\ toggleCollapsed(Resume(op))
            /\ UNCHANGED <<trackingFolder, lookbackWindow, autoExpandPanel, currentView>>
       ELSE /\ ops' = Resume(op)
            /\ UNCHANGED <<settingsVars, panelVars>>
    /\ UNCHANGED <<now, tz, wordCountCache, lastSaveTime, histVars, trial>>

\* vault.read rejected: the handler's promise rejects.
ReadRejects(op) ==
    /\ op \in InFlight
    /\ op.pc = "read"
    /\ wordCountCache' = CacheAfterReadError(wordCountCache, op.file.path)
    /\ ops' = Resume(op)
    /\ ev' = [Event(op.kind, "readError", op.file) EXCEPT !.calls = op.calls]
    /\ UNCHANGED <<now, tz, settingsVars, dailyData, lastSaveTime, panelVars,
                   histVars, trial>>

\* saveData rejected: the promise of the handler that awaits it (or of nobody,
\* for an un-awaited savePluginData) rejects; no handler catches it.
SaveRejects(op) ==
    /\ op \in InFlight
    /\ op.pc = "save"
    /\ wordCountCache' = CacheAfterSaveError(wordCountCache, op)
    /\ dailyData' = DailyDataAfterSaveError(dailyData, op)
    /\ ops' = Resume(op)
    /\ ev' = [Event(op.kind, "saveError", op.file) EXCEPT
                !.calls = op.calls, !.notice = NoticeAfterSaveError(op)]
    /\ unsaved' = IF op.kind = "modify" /\ op.file.path \in DOMAIN prevCount
                  THEN unsaved \cup {op.file.path} ELSE unsaved
    /\ UNCHANGED <<now, tz, settingsVars, lastSaveTime, panelVars, prevCount,
                   ledger, seed, baseline, trial>>

\* ------------------------------------------------------ file-opened handler
\* The "file-open" event up to the await of initializeFileCache.
OpenEvent(f) ==
    IF /\ isFileInTrackedFolder(f, trackingFolder)
       /\ isFileFromToday(f)
       /\ f.path \notin DOMAIN wordCountCache
    THEN /\ HasFreeSlot
         /\ ops' = Suspend(Op("open", f, "read", FALSE, 0))
         /\ ev' = Event("open", "accepted", f)
         /\ UNCHANGED <<now, tz, settingsVars, dataVars, panelVars, histVars, trial>>
    ELSE /\ ev' = Event("open", "null", f)
         /\ UNCHANGED <<now, tz, settingsVars, dataVars, panelVars, ops, histVars, trial>>

\* vault.read resolved in initializeFileCache: the cache entry is written.
OpenAfterRead(op, content) ==
    /\ op \in InFlight
    /\ op.kind = "open"
    /\ op.pc = "read"
    /\ wordCountCache' =
         Put(wordCountCache, op.file.path, calculateWordCount(content))
    /\ ops' = Resume(op)
    /\ ev' = [Event("open", "seeded", op.file) EXCEPT
                !.count = calculateWordCount(content)]
    /\ seed' = Put(seed, op.file.path, calculateWordCount(content))
    /\ baseline' = Put(baseline, op.file.path, calculateWordCount(content))
    /\ UNCHANGED <<now, tz, settingsVars, dailyData, lastSaveTime, panelVars,
                   prevCount, unsaved, ledger, trial>>

\* ------------------------------------------------------------------- reset
\* A reset that keeps the debounce timestamps.
ClearKeepingTimestamps ==
    /\ HasFreeSlot
    /\ dailyData' = <<>>
    /\ wordCountCache' = <<>>
    /\ ops' = Suspend(Op("clear", NoFile, "save", FALSE, 1))
    /\ ev' = [Event("clear", "started", NoFile) EXCEPT !.calls = 1]
    /\ prevCount' = <<>>
    /\ unsaved' = {}
    /\ ledger' = <<>>
    /\ seed' = <<>>
    /\ baseline' = <<>>
    /\ UNCHANGED <<now, tz, settingsVars, lastSaveTime, panelVars, trial>>

\* The three maps are replaced without an await between the assignments, and
\* savePluginData is called and awaited.
clearAllData ==
    /\ HasFreeSlot
    /\ dailyData' = <<>>
    /\ wordCountCache' = <<>>
    /\ lastSaveTime' = <<>>
    /\ ops' = Suspend(Op("clear", NoFile, "save", FALSE, 1))
    /\ ev' = [Event("clear", "started", NoFile) EXCEPT !.calls = 1]
    /\ prevCount' = <<>>
    /\ unsaved' = {}
    /\ ledger' = <<>>
    /\ seed' = <<>>
    /\ baseline' = <<>>
    /\ UNCHANGED <<now, tz, settingsVars, panelVars, trial>>

\* savePluginData resolved in clearAllData: the panel is refreshed and the
\* Notice is shown.
ClearAfterSave(op) ==
    /\ op \in InFlight
    /\ op.kind = "clear"
    /\ op.pc = "save"
    /\ ops' = Resume(op)
    /\ Refresh([Event("clear", "ok", NoFile) EXCEPT
                   !.calls = op.calls, !.notice = "All productivity data cleared"])
    /\ UNCHANGED <<now, tz, settingsVars, wordCountCache, lastSaveTime, panelVars,
                   histVars, trial>>

\* ---------------------------------------------------------------- settings
\* The tracking folder field changed to value.
SetTrackingFolder(value) ==
    /\ HasFreeSlot
    /\ trackingFolder' = NormalizeFolder(value)
    /\ ops' = Suspend(Op("settings", NoFile, "save", FALSE, 1))
    /\ ev' = [Event("settings", "started", NoFile) EXCEPT !.calls = 1]
    /\ UNCHANGED <<now, tz, lookbackWindow, autoExpandPanel, panelCollapsed, dataVars, panelVars,
                   histVars, trial>>

\* The auto-expand toggle changed.
SetAutoExpand ==
    /\ HasFreeSlot
    /\ autoExpandPanel' = ~autoExpandPanel
    /\ ops' = Suspend(Op("settings", NoFile, "save", FALSE, 1))
    /\ ev' = [Event("settings", "started", NoFile) EXCEPT !.calls = 1]
    /\ UNCHANGED <<now, tz, trackingFolder, lookbackWindow, panelCollapsed, dataVars, panelVars,
                   histVars, trial>>

\* savePluginData resolved in saveSettings: the panel takes the settings.
SettingsAfterSave(op) ==
    /\ op \in InFlight
    /\ op.kind = "settings"
    /\ op.pc = "save"
    /\ ops' = Resume(op)
    /\ Refresh([Event("settings", "ok", NoFile) EXCEPT !.calls = op.calls])
    /\ UNCHANGED <<now, tz, settingsVars, wordCountCache, lastSaveTime, panelVars,
                   histVars, trial>>

\* ------------------------------------------------------------------- panel
\* active-leaf-change to a markdown view of a file of the tracked folder:
\* PanelView.attach builds the container with the class of isCollapsed.
AttachPanel(f) ==
    /\ isFileInTrackedFolder(f, trackingFolder)
    /\ container' = IF isCollapsed THEN "collapsed" ELSE "open"
    /\ LET rendered == RenderedView(TRUE, isCollapsed, dailyData, currentView)
       IN  /\ ev' = [Event("attach", "ok", f) EXCEPT !.view = rendered]
           /\ dailyData' = DailyDataAfterRenderChart(dailyData, rendered,
                                                     getCurrentDateString,
                                                     lookbackWindow)
    /\ UNCHANGED <<now, tz, settingsVars, wordCountCache, lastSaveTime,
                   isCollapsed, currentView, ops, histVars, trial>>

\* active-leaf-change to any other view: PanelView.detach.
DetachPanel ==
    /\ container # "null"
    /\ container' = "null"
    /\ ev' = NoEvent
    /\ UNCHANGED <<now, tz, settingsVars, dataVars, isCollapsed, currentView, ops,
                   histVars, trial>>

\* layout-change: the panel is refreshed.
LayoutChange ==
    /\ Refresh(Event("layout", "ok", NoFile))
    /\ UNCHANGED <<now, tz, settingsVars, wordCountCache, lastSaveTime, panelVars,
                   ops, histVars, trial>>

\* A click on the Today or the Trend button of the attached panel.
ViewButtonClick(view) ==
    /\ container # "null"
    /\ currentView' = view
    /\ LET rendered == RenderedView(TRUE, isCollapsed, dailyData, view)
       IN  /\ ev' = [Event("view", "ok", NoFile) EXCEPT !.view = rendered]
           /\ dailyData' = DailyDataAfterRenderChart(dailyData, rendered,
                                                     getCurrentDateString,
                                                     lookbackWindow)
    /\ UNCHANGED <<now, tz, settingsVars, wordCountCache, lastSaveTime,
                   isCollapsed, container, ops, histVars, trial>>

\* A click on the panel header.
HeaderClick ==
    /\ container # "null"
    /\ HasFreeSlot
    /\ toggleCollapsed(ops)
    /\ ev' = [Event("collapse", "started", NoFile) EXCEPT !.calls = 1]
    /\ UNCHANGED <<now, tz, trackingFolder, lookbackWindow, autoExpandPanel, dataVars,
                   currentView, histVars, trial>>

\* The "toggle-panel" command: the class of the container is toggled in the
\* DOM and stored; savePluginData is not awaited.
TogglePanelCommand ==
    /\ container # "null"
    /\ HasFreeSlot
    /\ container' = IF container = "collapsed" THEN "open" ELSE "collapsed"
    /\ panelCollapsed' = ~(container = "collapsed")
    /\ ops' = Suspend(Op("collapse", NoFile, "save", FALSE, 1))
    /\ ev' = [Event("collapse", "started", NoFile) EXCEPT !.calls = 1]
    /\ UNCHANGED <<now, tz, trackingFolder, lookbackWindow, autoExpandPanel, dataVars,
                   isCollapsed, currentView, histVars, trial>>

\* An un-awaited savePluginData resolved.
CollapseAfterSave(op) ==
    /\ op \in InFlight
    /\ op.kind = "collapse"
    /\ op.pc = "save"
    /\ ops' = Resume(op)
    /\ ev' = [Event("collapse", "ok", NoFile) EXCEPT !.calls = op.calls]
    /\ UNCHANGED <<now, tz, settingsVars, dataVars, panelVars, histVars, trial>>

\* ------------------------------------------------------------------- spec
\* The handlers that read or write the tracking data, with the clock.
Next ==
    \/ Tick
    \/ \E f \in Files : ModifyEvent(f)
    \/ \E op \in InFlight, content \in Texts : ModifyAfterRead(op, content)
    \/ \E op \in InFlight : ModifyAfterSave(op)
    \/ \E op \in InFlight : ReadRejects(op)
    \/ \E op \in InFlight : SaveRejects(op)
    \/ \E f \in Files : OpenEvent(f)
    \/ \E op \in InFlight, content \in Texts : OpenAfterRead(op, content)
    \/ clearAllData
    \/ \E op \in InFlight : ClearAfterSave(op)
    \/ \E value \in FolderInputs : SetTrackingFolder(value)
    \/ \E op \in InFlight : SettingsAfterSave(op)

Spec == Init /\ [][Next]_vars

\* The handlers of the panel and of the settings that only the panel reads.
PanelNext ==
    \/ SetAutoExpand
    \/ \E f \in Files : AttachPanel(f)
    \/ DetachPanel
    \/ HeaderClick
    \/ TogglePanelCommand
    \/ \E op \in InFlight : CollapseAfterSave(op)

\* The dates of the days the clock runs through.
ClockDates == { IsoDateString(d * MsPerDay) : d \in 0..MaxDays }

\* DataTracker.getDayData(dateString) is called.
getDayDataCall(dateString) ==
    /\ ev' = Event("read", "getDayData", NoFile)
    /\ dailyData' = DailyDataAfterGetDayData(dailyData, dateString)
    /\ UNCHANGED <<now, tz, settingsVars, wordCountCache, lastSaveTime, panelVars,
                   ops, histVars, trial>>

\* DataTracker.hasTodayData() is called.
hasTodayDataCall ==
    /\ ev' = Event("read", "hasTodayData", NoFile)
    /\ dailyData' = DailyDataAfterHasTodayData(dailyData, getCurrentDateString)
    /\ UNCHANGED <<now, tz, settingsVars, wordCountCache, lastSaveTime, panelVars,
                   ops, histVars, trial>>

\* The handlers that write or read the day vectors: saves, resets and
\* settings changes, with the awaits that resolve or reject, the panel
\* attached to and detached from the notes, its view buttons, the refresh at
\* layout changes, and the two reads of the tracker that the panel does not
\* use.
ViewNext ==
    \/ Tick
    \/ \E f \in Files : ModifyEvent(f)
    \/ \E op \in InFlight, content \in Texts : ModifyAfterRead(op, content)
    \/ \E op \in InFlight : ModifyAfterSave(op)
    \/ clearAllData
    \/ \E op \in InFlight : ClearAfterSave(op)
    \/ \E value \in FolderInputs : SetTrackingFolder(value)
    \/ \E op \in InFlight : SettingsAfterSave(op)
    \/ \E op \in InFlight : ReadRejects(op)
    \/ \E op \in InFlight : SaveRejects(op)
    \/ \E f \in Files : AttachPanel(f)
    \/ DetachPanel
    \/ LayoutChange
    \/ \E view \in {"today", "trend"} : ViewButtonClick(view)
    \/ \E dateString \in ClockDates : getDayDataCall(dateString)
    \/ hasTodayDataCall

ViewSpec == Init /\ [][ViewNext]_vars

\* ------------------------------------------------- accumulation on its own
\* The deltas, the slots and the stores with which the accumulation of
\* processFileModification is exercised: three deltas go to one slot of a
\* store, in every order.
AccDeltas == {-2, 0, 3}

AccDates == {IsoDateString(0), IsoDateString(MsPerDay)}

AccBuckets == {BucketKey(9, <<"0", "0">>), BucketKey(9, <<"3", "0">>)}

AccStores ==
    { <<>>,
      Put(<<>>, IsoDateString(0),
          [createEmptyDayData EXCEPT ![BucketKey(9, <<"0", "0">>)] = 5,
                                     ![BucketKey(9, <<"3", "0">>)] = -1]) }

AccInit ==
    /\ now = 0
    /\ tz \in TzOffsets
    /\ trackingFolder = <<>>
    /\ lookbackWindow = 7
    /\ autoExpandPanel = TRUE
    /\ panelCollapsed = FALSE
    /\ dailyData \in AccStores
    /\ wordCountCache = <<>>
    /\ lastSaveTime = <<>>
    /\ isCollapsed = panelCollapsed
    /\ container = "null"
    /\ currentView = "today"
    /\ ops = EmptyBag
    /\ ev = NoEvent
    /\ prevCount = <<>>
    /\ unsaved = {}
    /\ ledger = <<>>
    /\ seed = <<>>
    /\ baseline = <<>>
    /\ \E date \in AccDates, bucket \in AccBuckets, deltas \in [1..3 -> AccDeltas] :
         trial = [name |-> "accumulate", date |-> date, bucket |-> bucket,
                  deltas |-> deltas, todo |-> 1..3, before |-> dailyData]

\* One of the deltas not yet committed is committed to the slot.
AccApply(i) ==
    /\ trial.name = "accumulate"
    /\ i \in trial.todo
    /\ dailyData' = Accumulate(dailyData, trial.date, trial.bucket, trial.deltas[i])
    /\ trial' = [trial EXCEPT !.todo = @ \ {i}]
    /\ UNCHANGED <<now, tz, settingsVars, wordCountCache, lastSaveTime, panelVars,
                   ops, ev, histVars>>

AccNext == \E i \in 1..3 : AccApply(i)

AccSpec == AccInit /\ [][AccNext]_vars

\* ------------------------------------------------ rolling average on its own
\* The longest window with which getAverageData is exercised.
MaxWindow == 3

\* Host timezones: UTC-8 and UTC+5:30 all year; a host whose clocks go back
\* from UTC-7 to UTC-8 at 09:00 UTC of the day after the epoch day; a host
\* whose clocks go forward from UTC-8 to UTC-7 at 10:00 UTC of that day.
AvgZones ==
    { FixedZone(-480), FixedZone(330),
      Zone(-420, MinutesPerDay + 9 * 60, -480),
      Zone(-480, MinutesPerDay + 10 * 60, -420) }

\* The instants of the calls: 00:00 UTC of the epoch day, 23:30 UTC of the
\* next day and 00:30 UTC of the day after (the first days of a year, when
\* the epoch day is a 31 December).
AvgInstants ==
    { 0, MsPerDay + 23 * MsPerHour + 30 * MsPerMinute,
      2 * MsPerDay + 30 * MsPerMinute }

AvgBucketA == BucketKey(9, <<"0", "0">>)

AvgBucketB == BucketKey(9, <<"3", "0">>)

AvgBucketC == BucketKey(14, <<"0", "0">>)

\* A day vector with a, b and c in three buckets and 0 elsewhere.
AvgVector(a, b, c) ==
    [createEmptyDayData EXCEPT ![AvgBucketA] = a, ![AvgBucketB] = b,
                               ![AvgBucketC] = c]

\* The day vectors of the stores: with a zero bucket, with negative buckets,
\* with values whose means over two days end in .5, and all zero.
AvgVectors ==
    { AvgVector(50, 0, 20), AvgVector(2, -2, 0), AvgVector(3, -3, 5),
      AvgVector(0, 0, 0) }

\* The dates of the stores: the epoch day and the two days after it.
AvgDates == { IsoDateString(d * MsPerDay) : d \in 0..2 }

\* Every store that holds, for some of the dates, one of the vectors.
AvgStores ==
    UNION { [dates -> AvgVectors] : dates \in SUBSET AvgDates }

AvgInit ==
    /\ now \in AvgInstants
    /\ trackingFolder = <<>>
    /\ lookbackWindow = 7
    /\ autoExpandPanel = TRUE
    /\ panelCollapsed = FALSE
    /\ dailyData \in AvgStores
    /\ wordCountCache = <<>>
    /\ lastSaveTime = <<>>
    /\ isCollapsed = panelCollapsed
    /\ container = "null"
    /\ currentView = "today"
    /\ ops = EmptyBag
    /\ ev = NoEvent
    /\ prevCount = <<>>
    /\ unsaved = {}
    /\ ledger = <<>>
    /\ seed = <<>>
    /\ baseline = <<>>
    /\ \E zone \in AvgZones :
         /\ tz = OffsetAt(zone, now \div MsPerMinute)
         /\ trial = [name |-> "average", zone |-> zone, op |-> "none",
                     days |-> 0, dates |-> <<>>, result |-> <<>>,
                     values |-> <<>>, before |-> dailyData]

\* getAverageData(days) is called; the dates its loop reads are noted.
getAverageDataCall(days) ==
    /\ trial.name = "average"
    /\ trial' = [trial EXCEPT
                   !.op = "getAverageData",
                   !.days = days,
                   !.dates = AverageDates(now, trial.zone, days),
                   !.result = getAverageData(dailyData, now, trial.zone, days),
                   !.values = <<>>]
    /\ dailyData' = DailyDataAfterGetAverageData(dailyData, days)
    /\ UNCHANGED <<now, tz, settingsVars, wordCountCache, lastSaveTime, panelVars,
                   ops, ev, histVars>>

\* getTodayData() is called.
getTodayDataCall ==
    /\ trial.name = "average"
    /\ trial' = [trial EXCEPT
                   !.op = "getTodayData",
                   !.days = 0,
                   !.dates = <<>>,
                   !.result = getTodayData(dailyData, getCurrentDateString),
                   !.values = <<>>]
    /\ dailyData' = DailyDataAfterGetTodayData(dailyData, getCurrentDateString)
    /\ UNCHANGED <<now, tz, settingsVars, wordCountCache, lastSaveTime, panelVars,
                   ops, ev, histVars>>

\* ChartRenderer.render is called, as renderChart calls it, with the vector
\* that getTodayData or getAverageData returned: the values of the dataset
\* it plots are noted.
render ==
    /\ trial.name = "average"
    /\ trial.op \in {"getTodayData", "getAverageData"}
    /\ trial' = [trial EXCEPT !.op = "render",
                              !.values = dataToArray(trial.result)]
    /\ UNCHANGED <<now, tz, settingsVars, dataVars, panelVars, ops, ev, histVars>>

AvgNext ==
    \/ \E days \in 0..MaxWindow : getAverageDataCall(days)
    \/ getTodayDataCall
    \/ render

AvgSpec == AvgInit /\ [][AvgNext]_vars

\* --------------------------------------------------- peak hours on their own
\* The largest topN with which findPeakHours is exercised, but for one topN
\* beyond the number of buckets.
MaxTopN == 4

TopNs == (0..MaxTopN) \cup {48 + MaxTopN}

\* The vectors given to findPeakHours: two positive buckets and a zero one;
\* two equal positive buckets and a negative one; no positive bucket; five
\* positive buckets, two of them equal; 48 positive buckets, all different.
PeakVectors ==
    { AvgVector(50, 0, 20), AvgVector(5, 5, -1), AvgVector(0, -3, 0),
      createEmptyDayData,
      [AvgVector(7, 2, 9) EXCEPT ![BucketKey(0, <<"0", "0">>)] = 2,
                                 ![BucketKey(23, <<"3", "0">>)] = 4],
      [b \in BucketKeys |-> 1 + CHOOSE i \in 1..48 : getBucketKeys[i] = b] }

PeakInit ==
    /\ now = 0
    /\ tz \in TzOffsets
    /\ trackingFolder = <<>>
    /\ lookbackWindow = 7
    /\ autoExpandPanel = TRUE
    /\ panelCollapsed = FALSE
    /\ dailyData = <<>>
    /\ wordCountCache = <<>>
    /\ lastSaveTime = <<>>
    /\ isCollapsed = panelCollapsed
    /\ container = "null"
    /\ currentView = "today"
    /\ ops = EmptyBag
    /\ ev = NoEvent
    /\ prevCount = <<>>
    /\ unsaved = {}
    /\ ledger = <<>>
    /\ seed = <<>>
    /\ baseline = <<>>
    /\ \E data \in PeakVectors :
         trial = [name |-> "peaks", data |-> data, op |-> "none", topN |-> 0,
                  bucket |-> <<>>, entries |-> <<>>, result |-> <<>>]

\* findPeakHours(data, topN) is called; the buckets of the entries behind the
\* labels are noted.
findPeakHoursCall(topN) ==
    /\ trial.name = "peaks"
    /\ trial' = [trial EXCEPT
                   !.op = "findPeakHours",
                   !.topN = topN,
                   !.bucket = <<>>,
                   !.entries = PeakEntries(trial.data, topN),
                   !.result = findPeakHours(trial.data, topN)]
    /\ UNCHANGED <<now, tz, settingsVars, dataVars, panelVars, ops, ev, histVars>>

\* formatBucketLabel(bucket) is called.
formatBucketLabelCall(bucket) ==
    /\ trial.name = "peaks"
    /\ trial' = [trial EXCEPT
                   !.op = "formatBucketLabel",
                   !.topN = 0,
                   !.bucket = bucket,
                   !.entries = <<>>,
                   !.result = formatBucketLabel(bucket)]
    /\ UNCHANGED <<now, tz, settingsVars, dataVars, panelVars, ops, ev, histVars>>

PeakNext ==
    \/ \E topN \in TopNs : findPeakHoursCall(topN)
    \/ \E bucket \in BucketKeys : formatBucketLabelCall(bucket)

PeakSpec == PeakInit /\ [][PeakNext]_vars

\* --------------------------------------------------- word count on its own
\* The most lines of a text whose words are counted.
MaxLines == 4

\* The lines of the texts, each with the number of its tokens: the delimiter,
\* two words, an empty line, a key with a value, four dashes, and a line that
\* starts like the delimiter.
WordLines ==
    { [text |-> <<"-", "-", "-">>, tokens |-> 1],
      [text |-> <<"a", " ", "b">>, tokens |-> 2],
      [text |-> <<>>, tokens |-> 0],
      [text |-> <<"k", ":", " ", "v">>, tokens |-> 2],
      [text |-> <<"-", "-", "-", "-">>, tokens |-> 1],
      [text |-> <<"-", "-", "-", " ", "x">>, tokens |-> 2] }

\* The lines joined by "\n".
RECURSIVE JoinLines(_)
JoinLines(lines) ==
    IF lines = <<>> THEN <<>>
    ELSE IF Len(lines) = 1 THEN lines[1].text
    ELSE lines[1].text \o <<"\n">> \o JoinLines(Tail(lines))

WordInit ==
    /\ now = 0
    /\ tz \in TzOffsets
    /\ trackingFolder = <<>>
    /\ lookbackWindow = 7
    /\ autoExpandPanel = TRUE
    /\ panelCollapsed = FALSE
    /\ dailyData = <<>>
    /\ wordCountCache = <<>>
    /\ lastSaveTime = <<>>
    /\ isCollapsed = panelCollapsed
    /\ container = "null"
    /\ currentView = "today"
    /\ ops = EmptyBag
    /\ ev = NoEvent
    /\ prevCount = <<>>
    /\ unsaved = {}
    /\ ledger = <<>>
    /\ seed = <<>>
    /\ baseline = <<>>
    /\ \E n \in 1..MaxLines : \E lines \in [1..n -> WordLines] :
       \E newline \in BOOLEAN :
         trial = [name |-> "words", lines |-> lines, newline |-> newline,
                  content |-> JoinLines(lines) \o
                              (IF newline THEN <<"\n">> ELSE <<>>),
                  op |-> "none", result |-> 0]

\* calculateWordCount(content) is called.
calculateWordCountCall ==
    /\ trial.name = "words"
    /\ trial.op = "none"
    /\ trial' = [trial EXCEPT !.op = "calculateWordCount",
                              !.result = calculateWordCount(trial.content)]
    /\ UNCHANGED <<now, tz, settingsVars, dataVars, panelVars, ops, ev, histVars>>

WordNext == calculateWordCountCall

WordSpec == WordInit /\ [][WordNext]_vars

\* ------------------------------------------------- the scope gate on its own
\* What the operator types into the tracking folder field: nothing, a
\* separator alone, a folder with and without separators around it, a folder
\* inside it, and a folder whose name starts like another's.
ScopeInputs ==
    { <<>>, <<"/">>, <<"J">>, <<"/", "J", "/">>, <<"J", "/", "K">>,
      <<"J", "y">> }

\* The notes saved and opened: today's note in J, in J/K, in Jy, in K/J and
\* at the root of the vault, and a file whose whole path is J.
ScopeFiles ==
    { Today, Outside,
      TFile(<<"J", "/", "K">>, IsoDateString(0)),
      TFile(<<"K", "/", "J">>, IsoDateString(0)),
      [path |-> IsoDateString(0) \o <<".", "m", "d">>, basename |-> IsoDateString(0)],
      [path |-> <<"J">>, basename |-> <<"J">>] }

\* The tracking folder is set and changed, and notes are saved and opened;
\* the content reads that start are left to fail.
ScopeNext ==
    \/ \E value \in ScopeInputs : SetTrackingFolder(value)
    \/ \E op \in InFlight : SettingsAfterSave(op)
    \/ \E f \in ScopeFiles : ModifyEvent(f)
    \/ \E f \in ScopeFiles : OpenEvent(f)
    \/ \E op \in InFlight : ReadRejects(op)

ScopeSpec == Init /\ [][ScopeNext]_vars

\* ------------------------------------------------- saves of two notes
\* Two notes of the tracked folder named for the epoch day.
SavesFiles == { Today, TFile(Journal, IsoDateString(0) \o <<"b">>) }

\* The tracking folder is set, the two notes are saved while the clock runs,
\* the saves read, commit and return or fail at the read, and the data is
\* reset.
SavesNext ==
    \/ Tick
    \/ SetTrackingFolder(Journal)
    \/ \E op \in InFlight : SettingsAfterSave(op)
    \/ \E f \in SavesFiles : ModifyEvent(f)
    \/ \E op \in InFlight, content \in Texts : ModifyAfterRead(op, content)
    \/ \E op \in InFlight : ModifyAfterSave(op)
    \/ \E op \in InFlight : ReadRejects(op)
    \/ clearAllData
    \/ \E op \in InFlight : ClearAfterSave(op)

SavesSpec == Init /\ [][SavesNext]_vars

\* ------------------------------------------------------ the startup load
\* A value of the stored JSON: tag is "null", "boolean", "number", "string"
\* or "object", and val is the boolean, the number, the characters of the
\* string or the mapping from the keys of the object to their values;
\* "undefined" is what reading a missing property gives.
Json(tag, val) == [tag |-> tag, val |-> val]

DEFAULT_SETTINGS ==
    [trackingFolder |-> Json("string", <<>>),
     lookbackWindow |-> Json("number", 7),
     panelCollapsed |-> Json("boolean", FALSE),
     autoExpandPanel |-> Json("boolean", TRUE)]

DEFAULT_DATA ==
    [dailyData |-> Json("object", <<>>),
     settings |-> Json("object", DEFAULT_SETTINGS),
     wordCountCache |-> Json("object", <<>>),
     lastSaveTime |-> Json("object", <<>>)]

\* this.data after loadPluginData when loadData resolved with savedData.  The
\* object spread { ...base, ...v } copies the own properties of v over those
\* of base: the keys of an object, the indices of a string, nothing of null,
\* undefined, a number or a boolean.
loadPluginData(savedData) ==
    LET truthy(v) ==
            /\ v.tag \notin {"null", "undefined"}
            /\ v.tag = "boolean" => v.val
            /\ v.tag = "number" => v.val # 0
            /\ v.tag = "string" => v.val # <<>>
        get(v, k) ==
            IF v.tag = "object" /\ k \in DOMAIN v.val THEN v.val[k]
            ELSE Json("undefined", <<>>)
        own(v) ==
            IF v.tag = "object" THEN v.val
            ELSE IF v.tag = "string"
                 THEN [k \in { Digits[i] : i \in 1..Len(v.val) } |->
                         Json("string",
                              <<v.val[CHOOSE i \in 1..Len(v.val) : Digits[i] = k]>>)]
                 ELSE <<>>
        spread(base, v) ==
            [k \in DOMAIN base \cup DOMAIN own(v) |->
                IF k \in DOMAIN own(v) THEN own(v)[k] ELSE base[k]]
    IN  IF truthy(savedData)
        THEN [spread(DEFAULT_DATA, savedData) EXCEPT !["settings"] =
                Json("object", spread(DEFAULT_SETTINGS, get(savedData, "settings")))]
        ELSE DEFAULT_DATA

\* What loadData may resolve with: null (nothing stored), a string, a number,
\* and every object that has, for some of the fields of PluginData and a
\* field of a later version, one of these values: for a map of the data a
\* well-formed map, null or a string; for the settings null, a string, an
\* empty object, objects with well-formed fields (some, or all with an
\* unknown one) and an object with fields of the wrong type.
LoadStored ==
    LET someMap == Json("object", [k \in {"k"} |-> Json("number", 5)])
        maps == { someMap, Json("null", <<>>), Json("string", <<"x">>) }
        settings ==
            { Json("null", <<>>), Json("string", <<"a", "b">>),
              Json("object", <<>>),
              Json("object", [trackingFolder |-> Json("string", <<"J">>)]),
              Json("object", [lookbackWindow |-> Json("number", 30),
                              panelCollapsed |-> Json("boolean", TRUE)]),
              Json("object", [trackingFolder |-> Json("string", <<"J">>),
                              lookbackWindow |-> Json("number", 14),
                              panelCollapsed |-> Json("boolean", TRUE),
                              autoExpandPanel |-> Json("boolean", FALSE),
                              theme |-> Json("string", <<"d">>)]),
              Json("object", [trackingFolder |-> Json("number", 5),
                              lookbackWindow |-> Json("string", <<"x">>),
                              autoExpandPanel |-> Json("null", <<>>)]) }
        values(k) == IF k = "settings" THEN settings
                     ELSE IF k = "version" THEN {Json("number", 2)}
                     ELSE maps
        keys == {"dailyData", "settings", "wordCountCache", "lastSaveTime",
                 "version"}
    IN  { Json("null", <<>>), Json("string", <<"a">>), Json("number", 1) } \cup
        { Json("object", f) :
            f \in UNION { { g \in [S -> maps \cup settings \cup {Json("number", 2)}] :
                              \A k \in S : g[k] \in values(k) } :
                          S \in SUBSET keys } }

LoadInit ==
    /\ now = 0
    /\ tz \in TzOffsets
    /\ trackingFolder = <<>>
    /\ lookbackWindow = 7
    /\ autoExpandPanel = TRUE
    /\ panelCollapsed = FALSE
    /\ dailyData = <<>>
    /\ wordCountCache = <<>>
    /\ lastSaveTime = <<>>
    /\ isCollapsed = panelCollapsed
    /\ container = "null"
    /\ currentView = "today"
    /\ ops = EmptyBag
    /\ ev = NoEvent
    /\ prevCount = <<>>
    /\ unsaved = {}
    /\ ledger = <<>>
    /\ seed = <<>>
    /\ baseline = <<>>
    /\ \E savedData \in LoadStored :
         trial = [name |-> "load", savedData |-> savedData, op |-> "none",
                  data |-> DEFAULT_DATA]

\* onload awaits loadPluginData: loadData has resolved with savedData.
loadPluginDataCall ==
    /\ trial.name = "load"
    /\ trial.op = "none"
    /\ trial' = [trial EXCEPT !.op = "loadPluginData",
                              !.data = loadPluginData(trial.savedData)]
    /\ UNCHANGED <<now, tz, settingsVars, dataVars, panelVars, ops, ev, histVars>>

LoadNext == loadPluginDataCall

LoadSpec == LoadInit /\ [][LoadNext]_vars

\* ------------------------------------------------- serialized notifications
\* The notes saved and opened one after the other.
SerialFiles == Files \cup SavesFiles

\* The handlers of the file-saved and file-opened notifications and of the
\* tracking folder, each started only when no handler is suspended, with the
\* clock running while a handler awaits; there is no reset.
SerialNext ==
    \/ Tick
    \/ ops = EmptyBag /\ SetTrackingFolder(Journal)
    \/ \E op \in InFlight : SettingsAfterSave(op)
    \/ \E f \in SerialFiles : ops = EmptyBag /\ ModifyEvent(f)
    \/ \E op \in InFlight, content \in Texts : ModifyAfterRead(op, content)
    \/ \E op \in InFlight : ModifyAfterSave(op)
    \/ \E f \in SerialFiles : ops = EmptyBag /\ OpenEvent(f)
    \/ \E op \in InFlight, content \in Texts : OpenAfterRead(op, content)
    \/ \E op \in InFlight : ReadRejects(op)
    \/ \E op \in InFlight : SaveRejects(op)

SerialSpec == Init /\ [][SerialNext]_vars

\* -------------------------------------------------------------- panel runs
\* The panel over the day's note: it is attached and detached, its header is
\* clicked, the "toggle-panel" command runs, the auto-expand setting is
\* switched, and the note is saved on both days of the clock.
PanelSpecNext ==
    \/ Tick
    \/ SetTrackingFolder(Journal)
    \/ SetAutoExpand
    \/ \E op \in InFlight : SettingsAfterSave(op)
    \/ AttachPanel(Today)
    \/ DetachPanel
    \/ HeaderClick
    \/ TogglePanelCommand
    \/ \E op \in InFlight : CollapseAfterSave(op)
    \/ ModifyEvent(Today)
    \/ \E op \in InFlight, content \in Texts : ModifyAfterRead(op, content)
    \/ \E op \in InFlight : ModifyAfterSave(op)

PanelSpec == Init /\ [][PanelSpecNext]_vars

\* ================================================================== claims
\* A file-saved notification has just passed or failed the gates.
Saved == ev.kind = "modify" /\ ev.result \in {"null", "accepted"}

\* A file-saved handler has just committed its delta.
Committed == ev.kind = "modify" /\ ev.result = "committed"

\* The value of a bucket of a store, 0 where the date has no vector.
BucketValue(dd, date, bucket) ==
    IF date \in DOMAIN dd THEN dd[date][bucket] ELSE 0

\* Every bucket but the one of <<date, bucket>> holds in after what it held
\* in before, and no vector but the one of date is new.
OtherBucketsKept(before, after, date, bucket) ==
    /\ DOMAIN after \subseteq DOMAIN before \cup {date}
    /\ DOMAIN before \subseteq DOMAIN after
    /\ \A d \in DOMAIN after : \A b \in BucketKeys :
         <<d, b>> # <<date, bucket>> =>
             BucketValue(after, d, b) = BucketValue(before, d, b)

\* The half-hour bucket of the host's wall clock.
WallClockBucket ==
    BucketKey(GetHours(now, tz),
              IF GetMinutes(now, tz) < 30 THEN <<"0", "0">> ELSE <<"3", "0">>)

\* C1: when a save of a path commits count c2 and the path's previous
\* committed save (since the last reset) had count c1, the delta is c2 - c1
\* and the bucket of the current date and time grows by exactly c2 - c1.
C1_ConsecutiveSavesDelta ==
    (Committed /\ ev.prev # -1) =>
        /\ ev.delta = ev.count - ev.prev
        /\ BucketValue(dailyData, getCurrentDateString, getCurrentHourBucket) =
             BucketValue(ev.pre.dailyData, getCurrentDateString,
                         getCurrentHourBucket) + (ev.count - ev.prev)

\* C2: a save of a path whose debounce timestamp is less than 3000 ms old
\* returns null and changes no bucket and no cached count.
C2_DebounceDrop ==
    (/\ Saved
     /\ ev.file.path \in DOMAIN ev.pre.lastSaveTime
     /\ now - ev.pre.lastSaveTime[ev.file.path] < DEBOUNCE_INTERVAL) =>
        /\ ev.result = "null"
        /\ dailyData = ev.pre.dailyData
        /\ wordCountCache = ev.pre.wordCountCache

\* A save half a debounce interval after an accepted and committed save of
\* the same path has been dropped by the debounce gate.
C2_Witness ==
    /\ Saved
    /\ ev.gate = "debounce"
    /\ ev.file.path \in DOMAIN wordCountCache
    /\ now - lastSaveTime[ev.file.path] = DEBOUNCE_INTERVAL \div 2

\* C3: a save of a file whose base name does not start with the current date
\* (the date under which the tracker records) returns null and leaves the day
\* vectors, the cached counts and the debounce timestamps as they were,
\* whatever the tracking folder and the debounce timestamps are.
C3_OtherDateNoOp ==
    (Saved /\ ~StartsWith(ev.file.basename, IsoDateString(now))) =>
        /\ ev.result = "null"
        /\ dailyData = ev.pre.dailyData
        /\ wordCountCache = ev.pre.wordCountCache
        /\ lastSaveTime = ev.pre.lastSaveTime

\* A save of a note of the tracked folder named for another date, whose
\* debounce timestamp is old enough to pass, has been rejected.
C3_Witness ==
    /\ Saved
    /\ ev.gate = "currency"
    /\ getDateFromFile(ev.file) # <<>>
    /\ ev.file.path \in DOMAIN lastSaveTime
    /\ now - lastSaveTime[ev.file.path] >= DEBOUNCE_INTERVAL

\* C4: a save that a gate rejects returns null, leaves the tracking data and
\* the settings as they were and calls the persistence callback zero times;
\* a save is rejected exactly when one of the three gates fails; a save that
\* commits calls the callback once, with the new count already in memory, and
\* a result is returned only by a handler whose one call has completed.
C4_GatesAndPersistence ==
    /\ Saved =>
         (ev.result = "null" <=>
            \/ ~isFileInTrackedFolder(ev.file, trackingFolder)
            \/ ~StartsWith(ev.file.basename, IsoDateString(now))
            \/ /\ ev.file.path \in DOMAIN ev.pre.lastSaveTime
               /\ now - ev.pre.lastSaveTime[ev.file.path] < DEBOUNCE_INTERVAL)
    /\ (ev.kind = "modify" /\ ev.result = "null") =>
         /\ Snapshot = ev.pre
         /\ ev.calls = 0
    /\ Committed =>
         /\ ev.calls = 1
         /\ wordCountCache[ev.file.path] = ev.count
    /\ (ev.kind = "modify" /\ ev.result = "ok") => ev.calls = 1
    /\ \A op \in InFlight :
         op.kind = "modify" => op.calls = (IF op.pc = "save" THEN 1 ELSE 0)

\* A handler has returned a result after its one persistence call completed,
\* while another accepted save still awaits its content.
C4_Witness ==
    /\ ev.kind = "modify"
    /\ ev.result = "ok"
    /\ ev.calls = 1
    /\ \E op \in InFlight : op.kind = "modify" /\ op.pc = "read"

\* C5: a committing save has isFirstSaveOfDay = TRUE exactly when the current
\* date had no day vector before it; the vector it creates is all zero but for
\* the delta; and a vector exists exactly for the dates with a committed save
\* since the last reset, so only the first committed save of a date has TRUE.
C5_FirstSaveOfDay ==
    /\ Committed =>
         /\ ev.first <=> (getCurrentDateString \notin DOMAIN ev.pre.dailyData)
         /\ ev.first =>
              dailyData[getCurrentDateString] =
                [createEmptyDayData EXCEPT ![getCurrentHourBucket] = ev.delta]
    /\ DOMAIN dailyData = { slot[1] : slot \in DOMAIN ledger }

\* A save has committed as the first of its date while the vector of an
\* earlier date exists.
C5_Witness ==
    /\ Committed
    /\ ev.first
    /\ ev.pre.dailyData # <<>>

\* C6: an accepted save is of a file named for the calendar date of the
\* host's wall clock, and a committing save adds its delta to the vector of
\* that date, in the half-hour bucket of the wall clock, and to no other.
C6_WallClockKeys ==
    /\ (Saved /\ ev.result = "accepted") =>
         StartsWith(ev.file.basename, LocalDateString(now, tz))
    /\ Committed =>
         /\ LocalDateString(now, tz) \in DOMAIN dailyData
         /\ BucketValue(dailyData, LocalDateString(now, tz), WallClockBucket) =
              BucketValue(ev.pre.dailyData, LocalDateString(now, tz),
                          WallClockBucket) + ev.delta
         /\ OtherBucketsKept(ev.pre.dailyData, dailyData,
                             LocalDateString(now, tz), WallClockBucket)

\* C7: with some of the three deltas committed to the slot, in whatever
\* order, the slot holds what it held before plus their sum, and every other
\* bucket holds what it held before.
AccDone == (1..3) \ trial.todo

AccSum ==
    (IF 1 \in AccDone THEN trial.deltas[1] ELSE 0) +
    (IF 2 \in AccDone THEN trial.deltas[2] ELSE 0) +
    (IF 3 \in AccDone THEN trial.deltas[3] ELSE 0)

C7_AccumulationIsSum ==
    (trial.name = "accumulate" /\ AccDone # {}) =>
        /\ BucketValue(dailyData, trial.date, trial.bucket) =
             BucketValue(trial.before, trial.date, trial.bucket) + AccSum
        /\ OtherBucketsKept(trial.before, dailyData, trial.date, trial.bucket)

\* Three different nonzero-sum deltas have been committed to a slot that held
\* a value before.
C7_Witness ==
    /\ trial.name = "accumulate"
    /\ trial.todo = {}
    /\ trial.deltas = <<3, -2, 0>>
    /\ BucketValue(trial.before, trial.date, trial.bucket) = 5
    /\ BucketValue(dailyData, trial.date, trial.bucket) = 6

\* C8: when the content read of an accepted save fails, the handler's
\* promise rejects with every cached count and every bucket as before, no
\* day vector created, and no call of the persistence callback.
C8_ReadFailure ==
    (ev.kind = "modify" /\ ev.result = "readError") =>
        /\ wordCountCache = ev.pre.wordCountCache
        /\ dailyData = ev.pre.dailyData
        /\ ev.calls = 0

\* The content read of a save has failed with a count cached and a day
\* vector stored.
C8_Witness ==
    /\ ev.kind = "modify"
    /\ ev.result = "readError"
    /\ ev.file.path \in DOMAIN wordCountCache
    /\ dailyData # <<>>

\* C9: a failed persistence call of a save leaves the cached counts and the
\* buckets as the commit made them, and the next save of the path that
\* commits computes its delta against the count of that commit.
C9_NoRollback ==
    /\ (ev.kind = "modify" /\ ev.result = "saveError") =>
         /\ wordCountCache = ev.pre.wordCountCache
         /\ dailyData = ev.pre.dailyData
    /\ (Committed /\ ev.unsaved) => ev.delta = ev.count - ev.prev

\* C10: every handler whose persistence write failed has shown a Notice.
C10_FailureSurfaced == ev.result = "saveError" => ev.notice # ""

\* A file-opened notification has just passed or failed the tests of
\* initializeFileCache.
Opened == ev.kind = "open" /\ ev.result \in {"null", "accepted"}

\* C11: a file-opened notification writes nothing itself and starts a warm-up
\* exactly when the file passes the scope and currency gates and its path has
\* no cached count; the warm-up sets the cached count of a path that has none
\* to the count of the content read and leaves a count already cached as it
\* is; no step of it changes a bucket, a day vector or a debounce timestamp or
\* calls the persistence callback; and the first save that commits after a
\* warm-up seeded c0 records its count minus c0.
C11_WarmUpFrame ==
    /\ Opened =>
         /\ Snapshot = ev.pre
         /\ ev.calls = 0
         /\ ev.result = "accepted" <=>
              /\ isFileInTrackedFolder(ev.file, trackingFolder)
              /\ StartsWith(ev.file.basename, IsoDateString(now))
              /\ ev.file.path \notin DOMAIN wordCountCache
    /\ (ev.kind = "open" /\ ev.result = "seeded") =>
         /\ dailyData = ev.pre.dailyData
         /\ lastSaveTime = ev.pre.lastSaveTime
         /\ ev.calls = 0
         /\ \A p \in DOMAIN ev.pre.wordCountCache :
              wordCountCache[p] = ev.pre.wordCountCache[p]
         /\ wordCountCache[ev.file.path] =
              (IF ev.file.path \in DOMAIN ev.pre.wordCountCache
               THEN ev.pre.wordCountCache[ev.file.path] ELSE ev.count)
    /\ (ev.kind = "open" /\ ev.result = "readError") =>
         /\ Snapshot = ev.pre
         /\ ev.calls = 0
    /\ \A op \in InFlight : op.kind = "open" => op.calls = 0
    /\ (Committed /\ ev.seed # -1) => ev.delta = ev.count - ev.seed

\* C12: the state that a reset leaves for the next handler has an empty date
\* map, an empty count cache and an empty timestamp map, and the tracking
\* folder, the lookback window, the auto-expand flag and the collapsed flag
\* it had before; the reset has then called the persistence callback once,
\* and it calls it no second time before it ends.
C12_ResetFrame ==
    /\ (ev.kind = "clear" /\ ev.result = "started") =>
         /\ dailyData = <<>>
         /\ wordCountCache = <<>>
         /\ lastSaveTime = <<>>
         /\ settingsVars = ev.pre.settings
         /\ ev.calls = 1
    /\ (ev.kind = "clear" /\ ev.result \in {"ok", "saveError"}) =>
         /\ settingsVars = ev.pre.settings
         /\ ev.calls = 1
    /\ \A op \in InFlight : op.kind = "clear" => (op.pc = "save" /\ op.calls = 1)

\* A reset has run on a store with a day vector, a cached count and a
\* debounce timestamp, with a tracking folder set and a save awaiting its
\* content.
C12_Witness ==
    /\ ev.kind = "clear"
    /\ ev.result = "started"
    /\ ev.pre.dailyData # <<>>
    /\ ev.pre.wordCountCache # <<>>
    /\ ev.pre.lastSaveTime # <<>>
    /\ trackingFolder # <<>>
    /\ \E op \in InFlight : op.kind = "modify" /\ op.pc = "read"

\* getAverageData has just been called.
Averaged == trial.name = "average" /\ trial.op = "getAverageData"

\* The calendar date d days before the date under which saves are recorded.
WindowDay(d) == IsoDateOfMinutes((now \div MsPerMinute) - d * MinutesPerDay)

\* The days of the window of the call, counted back from today, whose value
\* in bucket is nonzero in the store.
NonzeroDays(bucket) ==
    { d \in 0..(trial.days - 1) :
        BucketValue(trial.before, WindowDay(d), bucket) # 0 }

\* The sum of the values of bucket over the days of the set days.
RECURSIVE SumOfDays(_, _)
SumOfDays(days, bucket) ==
    IF days = {} THEN 0
    ELSE LET d == CHOOSE x \in days : TRUE
         IN  BucketValue(trial.before, WindowDay(d), bucket) +
             SumOfDays(days \ {d}, bucket)

\* num / den rounded to the nearest integer, a tie going away from zero.
RoundHalfAwayFromZero(num, den) ==
    IF num >= 0 THEN (2 * num + den) \div (2 * den)
    ELSE -((2 * (-num) + den) \div (2 * den))

\* C13: getAverageData(windowDays) returns the 48 buckets, each holding the
\* rounded mean of the bucket over the days of the window in which it is
\* nonzero, and 0 when it is nonzero in none (so the all-zero vector for a
\* window of absent or all-zero days), and leaves the store as it was.
C13_AverageOfNonzeroDays ==
    Averaged =>
        /\ DOMAIN trial.result = BucketKeys
        /\ \A b \in BucketKeys :
             trial.result[b] =
               (IF NonzeroDays(b) = {} THEN 0
                ELSE RoundHalfAwayFromZero(SumOfDays(NonzeroDays(b), b),
                                           Cardinality(NonzeroDays(b))))
        /\ dailyData = trial.before

C15_RoundsHalfAwayFromZero ==
    Averaged =>
        \A b \in BucketKeys :
            AverageCount(trial.before, trial.dates, b) > 0 =>
                trial.result[b] =
                  RoundHalfAwayFromZero(
                      AverageSum(trial.before, trial.dates, b),
                      AverageCount(trial.before, trial.dates, b))

\* C16: the dates that getAverageData(windowDays) reads are windowDays
\* pairwise different dates, the date read at d being the calendar date d
\* days before today, and the date read at d = 0 is the date key of the
\* saves.
C16_WindowDates ==
    Averaged =>
        /\ Len(trial.dates) = trial.days
        /\ \A i \in 1..trial.days : trial.dates[i] = WindowDay(i - 1)
        /\ \A i, j \in 1..trial.days :
             i # j => trial.dates[i] # trial.dates[j]
        /\ trial.days >= 1 => trial.dates[1] = getCurrentDateString

\* findPeakHours has just been called.
Peaked == trial.name = "peaks" /\ trial.op = "findPeakHours"

\* The buckets of data with a positive value.
PositiveBuckets(data) == { b \in BucketKeys : data[b] > 0 }

\* The entries of the call are at most topN, each labelled in the result,
\* each of another bucket with a positive value, as many as there are
\* positive buckets up to topN, and no bucket left out is larger than one
\* selected.
PeaksAreLargestPositive ==
    LET e == trial.entries
        data == trial.data
        positive == Cardinality(PositiveBuckets(data))
    IN  /\ Len(trial.result) = Len(e)
        /\ Len(e) <= trial.topN
        /\ Len(e) = (IF trial.topN < positive THEN trial.topN ELSE positive)
        /\ \A k \in 1..Len(e) :
             /\ e[k] \in PositiveBuckets(data)
             /\ trial.result[k] = formatBucketLabel(e[k])
        /\ \A j, k \in 1..Len(e) : j # k => e[j] # e[k]
        /\ \A b \in PositiveBuckets(data) :
             (\A k \in 1..Len(e) : e[k] # b) =>
                 \A k \in 1..Len(e) : data[b] <= data[e[k]]

\* C17 as stated: the entries are the topN largest positive buckets, in
\* strictly descending order of value.
C17_PeaksStrictlyDescending ==
    Peaked =>
        /\ PeaksAreLargestPositive
        /\ \A k \in 1..(Len(trial.entries) - 1) :
             trial.data[trial.entries[k]] > trial.data[trial.entries[k + 1]]

\* C17: findPeakHours returns at most topN entries, each for a bucket whose
\* value is > 0, the topN largest positive ones (all of them when there are
\* fewer), in descending order of value, buckets of equal value in the order
\* of their keys.
C17_PeaksDescending ==
    Peaked =>
        /\ PeaksAreLargestPositive
        /\ \A k \in 1..(Len(trial.entries) - 1) :
             LET a == trial.entries[k]
                 b == trial.entries[k + 1]
             IN  \/ trial.data[a] > trial.data[b]
                 \/ /\ trial.data[a] = trial.data[b]
                    /\ \E i, j \in 1..48 :
                         i < j /\ getBucketKeys[i] = a /\ getBucketKeys[j] = b

\* findPeakHours has returned fewer entries than asked for, two of them of
\* equal value, from a vector that also has a negative bucket.
C17_Witness ==
    /\ Peaked
    /\ Len(trial.entries) = 2
    /\ trial.topN > 2
    /\ trial.data[trial.entries[1]] = trial.data[trial.entries[2]]
    /\ \E b \in BucketKeys : trial.data[b] < 0

\* The hours of the 12-hour clock, for the hours 0, 1, ..., 11 and again for
\* 12, 13, ..., 23.
HourNames ==
    << <<"1", "2">>, <<"1">>, <<"2">>, <<"3">>, <<"4">>, <<"5">>, <<"6">>,
       <<"7">>, <<"8">>, <<"9">>, <<"1", "0">>, <<"1", "1">> >>

\* The 12-hour clock label of the bucket of hour h, on the half hour or not.
ClockLabel(h, onHalfHour) ==
    HourNames[(h % 12) + 1] \o
    (IF onHalfHour THEN <<":", "3", "0">> ELSE <<>>) \o
    (IF h < 12 THEN <<"a", "m">> ELSE <<"p", "m">>)

\* C18: the label of the key of hour h is the 12-hour clock label of h, with
\* ":30" before am or pm exactly for the half-hour key; the labels of the 48
\* keys are pairwise different; and the vector with 50 at 09:00, 0 at 09:30
\* and 20 at 14:00 has, for topN = 3, the peaks "9am", "2pm".
C18_ClockLabels ==
    /\ (trial.name = "peaks" /\ trial.op = "formatBucketLabel") =>
         /\ \A h \in 0..23 :
              /\ trial.bucket = BucketKey(h, <<"0", "0">>) =>
                   trial.result = ClockLabel(h, FALSE)
              /\ trial.bucket = BucketKey(h, <<"3", "0">>) =>
                   trial.result = ClockLabel(h, TRUE)
         /\ \A other \in BucketKeys :
              other # trial.bucket => formatBucketLabel(other) # trial.result
    /\ (Peaked /\ trial.data = AvgVector(50, 0, 20) /\ trial.topN = 3) =>
         trial.result = << <<"9", "a", "m">>, <<"2", "p", "m">> >>

\* The peaks of the vector with 50 at 09:00, 0 at 09:30 and 20 at 14:00 have
\* been asked for with topN = 3.
C18_Witness ==
    /\ Peaked
    /\ trial.data = AvgVector(50, 0, 20)
    /\ trial.topN = 3
    /\ Len(trial.result) = 2

\* The delimiter line of a frontmatter block.
Delimiter == <<"-", "-", "-">>

\* The text of the call begins with a well-formed frontmatter block: its
\* first line is the delimiter and a later line is the delimiter.
HasFrontmatter ==
    /\ trial.lines[1].text = Delimiter
    /\ \E j \in 2..Len(trial.lines) : trial.lines[j].text = Delimiter

\* The line that closes the block: the next line that is the delimiter.
ClosingLine ==
    SetMin({ j \in 2..Len(trial.lines) : trial.lines[j].text = Delimiter })

\* The tokens of the lines from line i on.
RECURSIVE TokensFrom(_)
TokensFrom(i) ==
    IF i > Len(trial.lines) THEN 0
    ELSE trial.lines[i].tokens + TokensFrom(i + 1)

\* C19: for a text that begins with a well-formed frontmatter block, empty
\* or not, calculateWordCount is the number of tokens of the lines after the
\* line that closes the block; a text that is only a block counts 0.
C19_FrontmatterIgnored ==
    (trial.name = "words" /\ trial.op = "calculateWordCount" /\ HasFrontmatter) =>
        trial.result = TokensFrom(ClosingLine + 1)

\* A step that only reads the day vectors has just been taken: the panel was
\* attached or refreshed or its view chosen, a read of the tracker was called,
\* or a handler ended with the refresh of the panel.
ReadOnlyStep ==
    \/ ev.kind \in {"attach", "layout", "view", "read"}
    \/ ev.kind \in {"modify", "clear", "settings"} /\ ev.result = "ok"

InFolder(path, folder) ==
    \/ path = folder
    \/ StartsWith(path, folder \o <<"/">>)

\* C21: a save fails the scope gate exactly unless the tracking folder is set
\* and the path is the folder or starts with the folder followed by "/"; a
\* save or a warm-up is accepted only for such a path, so none is accepted
\* while the tracking folder is unset; and a warm-up starts exactly for a path
\* of the folder, named for today, without a cached count.
C21_ScopeGate ==
    /\ Saved =>
         /\ ev.gate = "scope" <=>
              ~(trackingFolder # <<>> /\ InFolder(ev.file.path, trackingFolder))
         /\ ev.result = "accepted" =>
              (trackingFolder # <<>> /\ InFolder(ev.file.path, trackingFolder))
    /\ Opened =>
         (ev.result = "accepted" <=>
            /\ trackingFolder # <<>>
            /\ InFolder(ev.file.path, trackingFolder)
            /\ StartsWith(ev.file.basename, IsoDateString(now))
            /\ ev.file.path \notin DOMAIN wordCountCache)
    /\ \A op \in InFlight :
         op.kind \in {"modify", "open"} =>
             \E folder \in { NormalizeFolder(v) : v \in ScopeInputs } \ {<<>>} :
                 InFolder(op.file.path, folder)

\* A save of a note whose path starts with the letters of the tracking folder
\* but not with the folder and "/" has failed the scope gate.
C21_Witness ==
    /\ Saved
    /\ ev.gate = "scope"
    /\ trackingFolder # <<>>
    /\ StartsWith(ev.file.path, trackingFolder)

\* C22: but for a reset, a step changes the debounce timestamps only when it
\* is a save that passes the three gates, and then only the timestamp of the
\* saved path, which becomes the instant of the save; a dropped save leaves
\* every timestamp as it was; and a save of a note of the folder named for
\* today passes when its path has no timestamp or one at least 3000 ms old,
\* whatever was dropped or saved under another path since.
C22_DebounceTimestamp ==
    /\ (ev.kind # "none" /\ ~(ev.kind = "clear" /\ ev.result = "started")) =>
         \/ lastSaveTime = ev.pre.lastSaveTime
         \/ /\ Saved
            /\ ev.result = "accepted"
            /\ \A p \in DOMAIN ev.pre.lastSaveTime :
                 p # ev.file.path =>
                     /\ p \in DOMAIN lastSaveTime
                     /\ lastSaveTime[p] = ev.pre.lastSaveTime[p]
            /\ DOMAIN lastSaveTime = DOMAIN ev.pre.lastSaveTime \cup {ev.file.path}
    /\ (Saved /\ ev.result = "accepted") => lastSaveTime[ev.file.path] = now
    /\ (Saved /\ ev.gate = "debounce") => lastSaveTime = ev.pre.lastSaveTime
    /\ (/\ Saved
        /\ trackingFolder # <<>>
        /\ InFolder(ev.file.path, trackingFolder)
        /\ StartsWith(ev.file.basename, IsoDateString(now))
        /\ \/ ev.file.path \notin DOMAIN ev.pre.lastSaveTime
           \/ now - ev.pre.lastSaveTime[ev.file.path] >= DEBOUNCE_INTERVAL) =>
         ev.result = "accepted"

\* A save has passed the gate a whole debounce interval after the last
\* accepted save of its path, a save of another path having been accepted in
\* between.
C22_Witness ==
    /\ Saved
    /\ ev.result = "accepted"
    /\ ev.file.path \in DOMAIN ev.pre.lastSaveTime
    /\ now - ev.pre.lastSaveTime[ev.file.path] = DEBOUNCE_INTERVAL
    /\ \E p \in DOMAIN lastSaveTime :
         /\ p # ev.file.path
         /\ lastSaveTime[p] = DEBOUNCE_INTERVAL \div 2

\* C23: a handler that commits computes its delta against the count the
\* cache holds at that moment, writes its count to the cache and adds the
\* delta to the bucket of the current date and time in the same step, whatever
\* handlers are suspended around it; so every bucket holds the sum of the
\* deltas committed to it since the last reset (and the sum of all buckets is
\* the sum of all those deltas), and of the saves that commit on a date
\* without a vector exactly the first has isFirstSaveOfDay = TRUE.
C23_AtomicCommit ==
    /\ Committed =>
         /\ ev.delta = ev.count - OrZero(ev.pre.wordCountCache, ev.file.path)
         /\ wordCountCache = Put(ev.pre.wordCountCache, ev.file.path, ev.count)
         /\ BucketValue(dailyData, getCurrentDateString, getCurrentHourBucket) =
              BucketValue(ev.pre.dailyData, getCurrentDateString,
                          getCurrentHourBucket) + ev.delta
         /\ OtherBucketsKept(ev.pre.dailyData, dailyData, getCurrentDateString,
                             getCurrentHourBucket)
         /\ ev.first <=> (getCurrentDateString \notin DOMAIN ev.pre.dailyData)
         /\ getCurrentDateString \in DOMAIN dailyData
    /\ \A date \in DOMAIN dailyData : \A b \in BucketKeys :
         dailyData[date][b] = OrZero(ledger, <<date, b>>)
    /\ \A slot \in DOMAIN ledger : slot[1] \in DOMAIN dailyData

\* Of two saves of different notes that overlapped on a date without a
\* vector, the second has committed a nonzero delta without the flag while
\* the first, which has the flag, still awaits its persistence write.
C23_Witness ==
    /\ Committed
    /\ ~ev.first
    /\ ev.delta # 0
    /\ \E op \in InFlight :
         /\ op.kind = "modify"
         /\ op.pc = "save"
         /\ op.first
         /\ op.file # ev.file

\* C24: but for a reset, a step that is not a commit leaves every day vector
\* as it was, and a commit leaves the vector of every date but the date
\* current at the commit as it was and removes none; so the vector of a date
\* that the clock has passed is never changed again, whatever note is saved.
C24_OtherDatesKept ==
    (ev.kind # "none" /\ ~(ev.kind = "clear" /\ ev.result = "started")) =>
        /\ ~Committed => dailyData = ev.pre.dailyData
        /\ DOMAIN ev.pre.dailyData \subseteq DOMAIN dailyData
        /\ \A date \in DOMAIN dailyData :
             date # IsoDateString(now) =>
                 /\ date \in DOMAIN ev.pre.dailyData
                 /\ dailyData[date] = ev.pre.dailyData[date]

\* A save of the note named for the day before, accepted on that day, has
\* committed a nonzero delta on the next day while the store holds the
\* vector of the day before.
C24_Witness ==
    /\ Committed
    /\ ev.delta # 0
    /\ getDateFromFile(ev.file) # IsoDateString(now)
    /\ getDateFromFile(ev.file) \in DOMAIN ev.pre.dailyData
    /\ dailyData[getDateFromFile(ev.file)] = ev.pre.dailyData[getDateFromFile(ev.file)]

\* The stored state has field k, of the settings or of the data, in the
\* shape of its default: a mapping for the three maps of the data, a string
\* for the tracking folder, a number for the lookback window, a boolean for
\* the two flags.
StoredWellFormed(stored, defaults, k) ==
    /\ stored.tag = "object"
    /\ k \in DOMAIN stored.val
    /\ stored.val[k].tag = defaults[k].tag

\* The settings of the stored state, null when it has none.
StoredSettings ==
    IF trial.savedData.tag = "object" /\ "settings" \in DOMAIN trial.savedData.val
    THEN trial.savedData.val["settings"]
    ELSE Json("null", <<>>)

\* C25: after the startup load each of dailyData, wordCountCache and
\* lastSaveTime and each field of the settings holds the stored value when
\* the stored state has the field in well-formed shape, and its default
\* otherwise.
C25_LoadMergesOverDefaults ==
    (trial.name = "load" /\ trial.op = "loadPluginData") =>
        /\ \A k \in {"dailyData", "wordCountCache", "lastSaveTime"} :
             trial.data[k] =
               (IF StoredWellFormed(trial.savedData, DEFAULT_DATA, k)
                THEN trial.savedData.val[k] ELSE DEFAULT_DATA[k])
        /\ trial.data["settings"].tag = "object"
        /\ \A k \in DOMAIN DEFAULT_SETTINGS :
             trial.data["settings"].val[k] =
               (IF StoredWellFormed(StoredSettings, DEFAULT_SETTINGS, k)
                THEN StoredSettings.val[k] ELSE DEFAULT_SETTINGS[k])

\* The sum of the values of a sequence of numbers.
RECURSIVE SumSeq(_)
SumSeq(values) ==
    IF values = <<>> THEN 0 ELSE Head(values) + SumSeq(Tail(values))

\* C26: the series that the chart plots for a vector the tracker returned
\* carries every nonzero bucket value of the vector, and its values sum to
\* the sum of the buckets.
C26_ChartReadsBucketKeys ==
    (trial.name = "average" /\ trial.op = "render") =>
        /\ \A b \in BucketKeys :
             trial.result[b] # 0 =>
                 \E i \in DOMAIN trial.values : trial.values[i] = trial.result[b]
        /\ SumSeq(trial.values) =
             SumSeq([i \in 1..48 |-> trial.result[getBucketKeys[i]]])

\* C27: when the content read of a save fails, with no other handler
\* running, the cached counts and the day vectors are as before, and the
\* debounce timestamp of the path is again what it was before the save: not
\* less than 3000 ms old, so that a retry at that moment passes the debounce
\* gate.
C27_ReadFailureKeepsTimestamp ==
    (ev.kind = "modify" /\ ev.result = "readError") =>
        /\ wordCountCache = ev.pre.wordCountCache
        /\ dailyData = ev.pre.dailyData
        /\ \/ ev.file.path \notin DOMAIN lastSaveTime
           \/ now - lastSaveTime[ev.file.path] >= DEBOUNCE_INTERVAL

\* C28: the step of a warm-up that writes the cache writes a path that has
\* no cached count at that moment, and every count cached before the step is
\* cached after it.
C28_WarmUpKeepsCachedCount ==
    (ev.kind = "open" /\ ev.result = "seeded") =>
        /\ ev.file.path \notin DOMAIN ev.pre.wordCountCache
        /\ \A p \in DOMAIN ev.pre.wordCountCache :
             wordCountCache[p] = ev.pre.wordCountCache[p]

\* The sum of all buckets of all day vectors of a store.
RECURSIVE SumOfStore(_)
SumOfStore(dd) ==
    IF DOMAIN dd = {} THEN 0
    ELSE LET date == CHOOSE d \in DOMAIN dd : TRUE
         IN  SumSeq([i \in 1..48 |-> dd[date][getBucketKeys[i]]]) +
             SumOfStore([d \in DOMAIN dd \ {date} |-> dd[d]])

\* The sum over the paths of paths of cached count minus baseline.
RECURSIVE SumOverPaths(_)
SumOverPaths(paths) ==
    IF paths = {} THEN 0
    ELSE LET p == CHOOSE x \in paths : TRUE
         IN  (wordCountCache[p] - OrZero(baseline, p)) + SumOverPaths(paths \ {p})

\* C29: the buckets of all dates sum to the sum, over the paths with a
\* cached count, of the cached count minus the baseline of the path: the
\* count a warm-up seeded, or 0 when a save saw the path first.
C29_BucketsSumToCounts ==
    SumOfStore(dailyData) = SumOverPaths(DOMAIN wordCountCache)

\* A note seeded by a warm-up with words has since been saved with another
\* count, a note first seen by a save has words cached, and a save has just
\* been dropped by the debounce gate.
C29_Witness ==
    /\ Saved
    /\ ev.gate = "debounce"
    /\ \E p, q \in DOMAIN wordCountCache :
         /\ OrZero(baseline, p) > 0
         /\ wordCountCache[p] # baseline[p]
         /\ OrZero(baseline, q) = 0
         /\ wordCountCache[q] > 0

\* C30: PanelView.isCollapsed equals the stored panelCollapsed after header
\* clicks, expand() calls and "toggle-panel" commands, and a first save of
\* the day that returns with auto-expand enabled leaves the panel expanded:
\* neither the flag, nor the stored setting, nor the container is collapsed.
C30_CollapsedFlagPersisted ==
    /\ isCollapsed = panelCollapsed
    /\ (ev.kind = "modify" /\ ev.result = "ok" /\ ev.first /\ autoExpandPanel)
         => (~isCollapsed /\ ~panelCollapsed /\ container # "collapsed")

=============================================================================
